---- MODULE Spec2Model ----
(***************************************************************************)
(* State-machine model of the report client, my-app/src/App.jsx (the       *)
(* array-of-steps revision, lines 1-325): the React state of App, the      *)
(* asynchronous handleGenerate with its two suspension points, the tab     *)
(* navigation, the instructions input, and the four section views.         *)
(*                                                                         *)
(* JavaScript values are tagged records: [t |-> tag, v |-> payload].       *)
(* A JavaScript string is a TLA+ string, taken apart with Head, Tail, Len  *)
(* and SubSeq, so that trim() and the image-stripping replace() are        *)
(* computed character by character, not assumed.                           *)
(***************************************************************************)
EXTENDS Integers, Sequences, FiniteSets, TLC

VARIABLES
    activeTab,      \* useState('ingestion')                      App.jsx:7
    loading,        \* useState(false)                            App.jsx:8
    data,           \* useState(null)                             App.jsx:9
    error,          \* useState(null)                             App.jsx:10
    instructions,   \* useState("")                               App.jsx:13
    inflight,       \* suspended handleGenerate calls (at an await of lines 20/29)
    screen,         \* what the last render of App put on the page
    lastEvent       \* the handler that ran last, with its inputs (history)

vars == <<activeTab, loading, data, error, instructions, inflight, screen, lastEvent>>

-----------------------------------------------------------------------------
(* Bounds of the model *)

\* longest text typed into the instructions box
MaxLen == 3
\* most handleGenerate calls suspended at once when the handler is invoked directly
MaxInflight == 2
\* most columns of an ingestion record
MaxColumns == 9
\* most steps of a step sequence
MaxSteps == 3
\* most fragments a synthesis text is put together from
MaxFragments == 3

-----------------------------------------------------------------------------
(* JavaScript values *)

Undefined == [t |-> "undefined"]
Null == [t |-> "null"]
Str(s) == [t |-> "str", v |-> s]
Num(n) == [t |-> "num", v |-> n]
Arr(a) == [t |-> "arr", v |-> a]
Obj(f) == [t |-> "obj", v |-> f]

\* an object literal with no own properties
EmptyFields == [k \in {} |-> Undefined]

IsNullish(x) == x.t \in {"undefined", "null"}

\* ToBoolean: what `!x`, `x || y`, `x && y` and `x ? a : b` test
Truthy(x) ==
    CASE x.t = "undefined" -> FALSE
      [] x.t = "null" -> FALSE
      [] x.t = "str" -> Len(x.v) > 0
      [] x.t = "num" -> x.v # 0
      [] OTHER -> TRUE

\* x.k for a non-nullish x (own data properties only; `length` is separate)
Get(x, k) ==
    IF x.t = "obj" /\ k \in DOMAIN x.v THEN x.v[k] ELSE Undefined

\* x?.k
OptGet(x, k) == IF IsNullish(x) THEN Undefined ELSE Get(x, k)

\* x.length for a non-nullish x
LengthOf(x) ==
    IF x.t \in {"arr", "str"} THEN Num(Len(x.v)) ELSE Get(x, "length")

\* a || b
OrElse(a, b) == IF Truthy(a) THEN a ELSE b

-----------------------------------------------------------------------------
(* Strings *)

\* the characters String.prototype.trim removes that occur in the model
WhiteSpace == {" ", "\n", "\t"}

RECURSIVE TrimStart(_)
TrimStart(s) ==
    IF Len(s) > 0 /\ Head(s) \in WhiteSpace THEN TrimStart(Tail(s)) ELSE s

RECURSIVE TrimEnd(_)
TrimEnd(s) ==
    IF Len(s) > 0 /\ SubSeq(s, Len(s), Len(s)) \in WhiteSpace
    THEN TrimEnd(SubSeq(s, 1, Len(s) - 1))
    ELSE s

\* String.prototype.trim
Trim(s) == TrimEnd(TrimStart(s))


\* the texts of at most n characters over the alphabet A
RECURSIVE TextsUpTo(_, _)
TextsUpTo(A, n) ==
    IF n = 0 THEN {""}
    ELSE LET shorter == TextsUpTo(A, n - 1)
         IN  shorter \cup {s \o c : s \in shorter, c \in A}

\* the i-th character of s (1-based)
CharAt(s, i) == SubSeq(s, i, i)

\* String(n) for an integer n >= 0
RECURSIVE NumberToString(_)
NumberToString(n) ==
    IF n < 10 THEN CharAt("0123456789", n + 1)
    ELSE NumberToString(n \div 10) \o CharAt("0123456789", (n % 10) + 1)

\* the three digits of a group after the first, zero-padded
Pad3(n) ==
    CharAt("0123456789", (n \div 100) + 1)
        \o CharAt("0123456789", ((n \div 10) % 10) + 1)
        \o CharAt("0123456789", (n % 10) + 1)

\* Number.prototype.toLocaleString() for an integer n >= 0 (en-US grouping)
RECURSIVE GroupDigits(_)
GroupDigits(n) ==
    IF n < 1000 THEN NumberToString(n)
    ELSE GroupDigits(n \div 1000) \o "," \o Pad3(n % 1000)

\* x.toLocaleString() for a non-nullish x
ToLocaleString(x) ==
    CASE x.t = "num" -> Str(GroupDigits(x.v))
      [] x.t = "str" -> x
      [] OTHER -> Str("[object Object]")

\* the string a template literal `${x}` or string concatenation makes of x
ToStringJS(x) ==
    CASE x.t = "str" -> x.v
      [] x.t = "num" -> NumberToString(x.v)
      [] x.t = "undefined" -> "undefined"
      [] x.t = "null" -> "null"
      [] OTHER -> "[object Object]"

\* the text React puts on the page for a child {x}: nothing for null and
\* undefined, the characters of a string, the digits of a number
ChildText(x) ==
    CASE x.t = "str" -> x.v
      [] x.t = "num" -> NumberToString(x.v)
      [] OTHER -> ""

\* characters that `.` of a regular expression does not match
LineTerminators == {"\n", "\r"}

\* no character of s[from..to] is a line terminator
NoLineBreak(s, from, to) ==
    \A i \in from..to : CharAt(s, i) \notin LineTerminators

SetMin(S) == CHOOSE m \in S : \A n \in S : m <= n

\* positions k >= from of a ")" that `.*?\)` started at from can end on
CloseParens(s, from) ==
    {k \in from..Len(s) : CharAt(s, k) = ")" /\ NoLineBreak(s, from, k - 1)}

\* positions j of a "](" that `.*?\]\(` started at position 3 can end on, with
\* the rest of the pattern matching after it
CloseBrackets(s) ==
    {j \in 3..(Len(s) - 1) :
        /\ CharAt(s, j) = "]"
        /\ CharAt(s, j + 1) = "("
        /\ NoLineBreak(s, 3, j - 1)
        /\ CloseParens(s, j + 2) # {}}

\* length of the match of /!\[.*?\]\(.*?\)/ at the start of s, 0 for no match;
\* the lazy quantifiers take the first "](" and then the first ")" that let
\* the whole pattern match
ImageMatchLen(s) ==
    IF Len(s) < 5 \/ SubSeq(s, 1, 2) # "![" \/ CloseBrackets(s) = {} THEN 0
    ELSE SetMin(CloseParens(s, SetMin(CloseBrackets(s)) + 2))

\* positions at which /!\[.*?\]\(.*?\)/ matches in s
ImageStarts(s) ==
    {i \in 1..(Len(s) - 1) :
        /\ SubSeq(s, i, i + 1) = "!["
        /\ ImageMatchLen(SubSeq(s, i, Len(s))) > 0}

\* s.replace(/!\[.*?\]\(.*?\)/g, ""): matches are found left to right, the
\* search resuming after each match; the result is not scanned again
RECURSIVE StripImages(_)
StripImages(s) ==
    IF ImageStarts(s) = {} THEN s
    ELSE LET i == SetMin(ImageStarts(s))
             m == ImageMatchLen(SubSeq(s, i, Len(s)))
         IN  SubSeq(s, 1, i - 1) \o StripImages(SubSeq(s, i + m, Len(s)))

-----------------------------------------------------------------------------
(* The section views.  A view yields what it renders, or Thrown when        *)
(* evaluating it raises a TypeError (React then unmounts the whole tree).  *)

Thrown == [threw |-> TRUE]

MinOf(a, b) == IF a < b THEN a ELSE b

\* a > n for a number n: false unless a is a number greater than n
GreaterThan(a, n) == a.t = "num" /\ a.v > n

\* data?.columns?.slice(0, 6).map(c => <span>{c}</span>): nothing for a nullish
\* columns; slice exists on arrays and strings only, map on arrays only
ColumnChips(cols) ==
    IF IsNullish(cols) THEN [threw |-> FALSE, chips |-> <<>>]
    ELSE IF cols.t # "arr" THEN Thrown
    ELSE [threw |-> FALSE,
          chips |-> [i \in 1..MinOf(6, Len(cols.v)) |-> ChildText(cols.v[i])]]

\* variant: the remainder indicator appears from six columns on (>= for >)
MoreIndicatorFromSix(cols) ==
    LET n == IF IsNullish(cols) THEN Undefined ELSE LengthOf(cols)
    IN  IF GreaterThan(n, 5)
        THEN [shown |-> TRUE, text |-> "+" \o NumberToString(n.v - 6) \o " more"]
        ELSE [shown |-> FALSE, text |-> ""]

\* (data?.columns?.length > 6) && <span>+{data.columns.length - 6} more</span>
MoreIndicator(cols) ==
    LET n == IF IsNullish(cols) THEN Undefined ELSE LengthOf(cols)
    IN  IF GreaterThan(n, 6)
        THEN [shown |-> TRUE, text |-> "+" \o NumberToString(n.v - 6) \o " more"]
        ELSE [shown |-> FALSE, text |-> ""]

IngestionView(d) ==
    LET rc == OptGet(d, "row_count")
        rcText == IF IsNullish(rc) THEN Undefined ELSE ToLocaleString(rc)
        cols == OptGet(d, "columns")
        chips == ColumnChips(cols)
    IN  IF chips.threw THEN Thrown
        ELSE [threw |-> FALSE,
              view |-> "ingestion",
              status |-> ChildText(OrElse(OptGet(d, "status"), Str("Ready"))),
              rowCount |-> ChildText(OrElse(rcText, Num(0))),
              columns |-> chips.chips,
              more |-> MoreIndicator(cols)]

\* variant: a missing insight is flagged like missing code
InsightBlockPlaceholder(item) ==
    LET insight == Get(item, "insight")
    IN  IF Truthy(insight)
        THEN [shown |-> TRUE, text |-> ChildText(insight)]
        ELSE [shown |-> FALSE, text |-> "No insight generated"]

\* {item.insight && (<div>...{item.insight}</div>)}: the block when insight is
\* truthy; otherwise React renders the falsy value itself (text for 0 only)
InsightBlock(item) ==
    LET insight == Get(item, "insight")
    IN  IF Truthy(insight)
        THEN [shown |-> TRUE, text |-> ChildText(insight)]
        ELSE [shown |-> FALSE, text |-> ChildText(insight)]

\* variant: the fallback label uses the 0-based index (`Analysis Step ${index}`)
PandasBlockZeroBased(item, index) ==
    [number |-> NumberToString(index + 1),
     label |-> ChildText(OrElse(Get(item, "section"),
                                Str("Analysis Step " \o NumberToString(index)))),
     query |-> ChildText(Get(item, "query")),
     code |-> ChildText(OrElse(Get(item, "code"), Str("# No code generated"))),
     image |-> IF Truthy(Get(item, "image"))
               THEN [shown |-> TRUE,
                     src |-> "data:image/png;base64," \o ToStringJS(Get(item, "image")),
                     alt |-> "Plot for " \o ToStringJS(Get(item, "section"))]
               ELSE [shown |-> FALSE, text |-> "No visualization generated"],
     insight |-> InsightBlock(item)]

\* one block of PandasAgentView for the item at 0-based index
PandasBlock(item, index) ==
    [number |-> NumberToString(index + 1),
     label |-> ChildText(OrElse(Get(item, "section"),
                                Str("Analysis Step " \o NumberToString(index + 1)))),
     query |-> ChildText(Get(item, "query")),
     code |-> ChildText(OrElse(Get(item, "code"), Str("# No code generated"))),
     image |-> IF Truthy(Get(item, "image"))
               THEN [shown |-> TRUE,
                     src |-> "data:image/png;base64," \o ToStringJS(Get(item, "image")),
                     alt |-> "Plot for " \o ToStringJS(Get(item, "section"))]
               ELSE [shown |-> FALSE, text |-> "No visualization generated"],
     insight |-> InsightBlock(item)]

PandasAgentView(d) ==
    IF ~Truthy(d) \/ d.t # "arr" \/ Len(d.v) = 0
    THEN [threw |-> FALSE, view |-> "pandas", blocks |-> <<>>,
          placeholder |-> "No quantitative analysis performed in this step."]
    ELSE IF \E i \in 1..Len(d.v) : IsNullish(d.v[i]) THEN Thrown
    ELSE [threw |-> FALSE, view |-> "pandas", placeholder |-> "",
          blocks |-> [i \in 1..Len(d.v) |-> PandasBlock(d.v[i], i - 1)]]

\* one block of RAGAgentView for the item at 0-based index
RAGBlock(item, index) ==
    [number |-> NumberToString(index + 1),
     label |-> ChildText(OrElse(Get(item, "section"),
                                Str("Research Step " \o NumberToString(index + 1)))),
     query |-> ChildText(Get(item, "query")),
     context |-> ChildText(OrElse(Get(item, "context"), Str("No context found."))),
     insight |-> InsightBlock(item)]

RAGAgentView(d) ==
    IF ~Truthy(d) \/ d.t # "arr" \/ Len(d.v) = 0
    THEN [threw |-> FALSE, view |-> "rag", blocks |-> <<>>,
          placeholder |-> "No qualitative research performed in this step."]
    ELSE IF \E i \in 1..Len(d.v) : IsNullish(d.v[i]) THEN Thrown
    ELSE [threw |-> FALSE, view |-> "rag", placeholder |-> "",
          blocks |-> [i \in 1..Len(d.v) |-> RAGBlock(d.v[i], i - 1)]]

reportHeader ==
    "# BMW Global Sales Analysis Report (2020-2024)\n> Generated by AI Multi-Agent System\n\n---\n\n"

SynthesisView(d) ==
    LET fullMarkdown ==
            reportHeader \o ToStringJS(OrElse(OptGet(d, "markdown_content"),
                                              Str("*Report generation pending...*")))
    IN  [threw |-> FALSE, view |-> "synthesis", markdown |-> StripImages(fullMarkdown)]

-----------------------------------------------------------------------------
(* The page App renders from its state *)

Tabs == {"ingestion", "pandas", "rag", "synthesis"}

Crashed == [crashed |-> TRUE]

\* {error && (<div><strong>System Error:</strong> {error}</div>)}
ErrorBanner(err) ==
    IF Truthy(err) THEN [shown |-> TRUE, text |-> ChildText(err)]
    ELSE [shown |-> FALSE, text |-> ChildText(err)]

\* data?.pandas_agent?.length > 0 && <span>{data.pandas_agent.length}</span>
Badge(dt, key) ==
    LET steps == OptGet(dt, key)
        n == IF IsNullish(steps) THEN Undefined ELSE LengthOf(steps)
    IN  IF GreaterThan(n, 0) THEN [shown |-> TRUE, text |-> ChildText(n)]
        ELSE [shown |-> FALSE, text |-> ""]

\* the main content area: the section of the active tab once a result is held
\* and nothing is loading
Content(tab, ld, dt) ==
    IF ~(Truthy(dt) /\ ~ld) THEN [threw |-> FALSE, view |-> "none"]
    ELSE CASE tab = "ingestion" -> IngestionView(Get(dt, "ingestion"))
           [] tab = "pandas" -> PandasAgentView(Get(dt, "pandas_agent"))
           [] tab = "rag" -> RAGAgentView(Get(dt, "rag_agent"))
           [] tab = "synthesis" -> SynthesisView(Get(dt, "synthesis"))

AppRender(tab, ld, dt, err) ==
    LET content == Content(tab, ld, dt)
    IN  IF content.threw THEN Crashed
        ELSE [crashed |-> FALSE,
              generateDisabled |-> ld,
              generateLabel |-> IF ld THEN "Thinking" ELSE "Generate",
              banner |-> ErrorBanner(err),
              selectedTab |-> tab,
              pandasBadge |-> Badge(dt, "pandas_agent"),
              ragBadge |-> Badge(dt, "rag_agent"),
              ready |-> ~Truthy(dt) /\ ~ld,
              spinner |-> ld,
              content |-> content]

-----------------------------------------------------------------------------
(* Inputs: what the user types and what the endpoint answers *)

\* characters typed into the instructions box
TypedChars == {" ", "a"}

\* values of e.target.value
Texts == TextsUpTo(TypedChars, MaxLen)

\* the text of the "Use Sample Prompt" button
SamplePrompt ==
    "Trend & Growth Analysis \n- Analyze the sales trend of Hybrid vehicles over the last 3 years and explain the market shift towards electrification. \n- Show me the monthly sales volume for 2023. Identify the peak month and research what marketing events or vehicle launches happened then. \n- Compare Year-over-Year growth for SUVs versus Sedans. Why are SUVs trending higher?"

\* a response body with every section filled in
FullResult ==
    Obj([ingestion |-> Obj([status |-> Str("Loaded"),
                            row_count |-> Num(1200),
                            columns |-> Arr(<<Str("Year"), Str("Model")>>)]),
         pandas_agent |-> Arr(<<Obj([section |-> Str("Trend"),
                                     query |-> Str("q1"),
                                     code |-> Str("df.sum()"),
                                     image |-> Str("iVBOR"),
                                     insight |-> Str("up")])>>),
         rag_agent |-> Arr(<<Obj([query |-> Str("q2"),
                                  context |-> Str("ctx")])>>),
         synthesis |-> Obj([markdown_content |-> Str("Up. ![p](p.png) End.")])])

\* a response body with no section at all
EmptyResult == Obj(EmptyFields)

\* a response body reporting a domain failure
ErrorResult(m) == Obj([error |-> Str(m)])

\* parsed bodies the endpoint answers with: JSON objects, and JSON null
Results ==
    {FullResult, EmptyResult, ErrorResult("Agent failed"), ErrorResult("No data"),
     ErrorResult(""), Null}

\* shapes of the columns field of the ingestion record
ColumnsShapes ==
    {Null, Str("Year,Model"), Num(2), Obj(EmptyFields), Arr(<<>>),
     Arr(<<Str("Year")>>), Arr(<<Null, Str("Model")>>)}

\* shapes of the ingestion subsection
IngestionShapes ==
    {Null, Str("n/a"), Arr(<<>>), Obj(EmptyFields),
     Obj([status |-> Null, row_count |-> Null])}
        \cup {Obj([status |-> Str("Loaded"), row_count |-> Num(1200), columns |-> c]) :
                c \in ColumnsShapes}

\* shapes of a step sequence (pandas_agent, rag_agent)
StepsShapes ==
    {Null, Str("none"), Num(0), Obj(EmptyFields), Arr(<<>>), Arr(<<Null>>),
     Arr(<<Obj(EmptyFields)>>),
     Arr(<<Obj([section |-> Str("Trend"), query |-> Str("q1")]), Obj(EmptyFields)>>),
     Arr(<<Obj([query |-> Str("q1"), insight |-> Null]), Null>>)}

\* shapes of the synthesis subsection
SynthesisShapes ==
    {Null, Num(5), Str("text"), Arr(<<>>), Obj(EmptyFields),
     Obj([markdown_content |-> Null]),
     Obj([markdown_content |-> Str("Up. ![p](p.png) End.")])}

\* parsed bodies with one subsection of any shape and the others absent
ResultShapes ==
    {EmptyResult}
        \cup {Obj([ingestion |-> x]) : x \in IngestionShapes}
        \cup {Obj([pandas_agent |-> x]) : x \in StepsShapes}
        \cup {Obj([rag_agent |-> x]) : x \in StepsShapes}
        \cup {Obj([synthesis |-> x]) : x \in SynthesisShapes}

\* the i-th column name of a data set
ColumnName(i) == "c" \o NumberToString(i)

\* a columns field of n names
ColumnsOf(n) == Arr([i \in 1..n |-> Str(ColumnName(i))])

\* ingestion records as the data model describes them: status, row_count and
\* columns, the columns also left out or with a repeated name
IngestionRecords ==
    {Obj([status |-> Str("Loaded"), row_count |-> Num(1200)]),
     Obj([status |-> Str("Loaded"), row_count |-> Num(1200),
          columns |-> Arr(<<Str("Year"), Str("Year")>>)])}
        \cup {Obj([status |-> Str("Loaded"), row_count |-> Num(1234567),
                   columns |-> ColumnsOf(n)]) : n \in 0..MaxColumns}

\* the values of an optional text field of a step in a parsed body: left out
\* (Undefined here), null, the empty string, or the text
OptionalText(s) == {Undefined, Null, Str(""), Str(s)}

\* the parsed JSON object with the given fields, a field left out when its
\* value here is Undefined
Step(fields) ==
    Obj([k \in {f \in DOMAIN fields : fields[f].t # "undefined"} |-> fields[k]])

\* steps of the quantitative agent, with every combination of optional fields
PandasSteps ==
    {Step([section |-> s, query |-> Str("q"), code |-> c, image |-> im, insight |-> ins]) :
        s \in {Undefined, Str("Trend")}, c \in OptionalText("df.sum()"),
        im \in OptionalText("iVBOR"), ins \in OptionalText("up")}

\* steps of the qualitative agent, with every combination of optional fields
RAGSteps ==
    {Step([section |-> s, query |-> Str("q"), context |-> c, insight |-> ins]) :
        s \in {Undefined, Str("News")}, c \in OptionalText("ctx"),
        ins \in OptionalText("why")}

\* two steps that differ in query, one with a section and one without
OrderedSteps ==
    {Obj([section |-> Str("Trend"), query |-> Str("q1")]), Obj([query |-> Str("q2")])}

\* the sequences of lo to hi steps over the set S
SeqsOver(S, lo, hi) == UNION {[1..n -> S] : n \in lo..hi}

\* step sequences: empty, of one step of any kind, and of several steps in
\* every order, repeated steps included
StepSequences(single) ==
    {Arr(<<>>)} \cup {Arr(<<s>>) : s \in single}
        \cup {Arr(q) : q \in SeqsOver(OrderedSteps, 2, MaxSteps)}

\* parsed bodies of the shape the data model describes, one section filled in
SectionResults ==
    {EmptyResult, FullResult}
        \cup {Obj([ingestion |-> x]) : x \in IngestionRecords}
        \cup {Obj([pandas_agent |-> x]) : x \in StepSequences(PandasSteps)}
        \cup {Obj([rag_agent |-> x]) : x \in StepSequences(RAGSteps)}

\* pieces of markdown a report is put together from: a stray "!", an image,
\* a link, plain text, and a bracketed remark after a "!"
MarkdownFragments == {"!", "![a](b)", "[c](d)", " t ", "![x]"}

\* the texts made of at most n fragments
RECURSIVE FragmentTexts(_)
FragmentTexts(n) ==
    IF n = 0 THEN {""}
    ELSE LET shorter == FragmentTexts(n - 1)
         IN  shorter \cup {s \o f : s \in shorter, f \in MarkdownFragments}

\* values of synthesis.markdown_content
MarkdownTexts ==
    FragmentTexts(MaxFragments) \cup {"a ![alt](http://x/y.png) b", "Up. ![p](p.png) End."}

\* parsed bodies with a synthesis record of the shape the data model
\* describes, the record or its content also absent
SynthesisResults ==
    {EmptyResult, Obj([synthesis |-> Obj(EmptyFields)]),
     Obj([synthesis |-> Obj([markdown_content |-> Null])])}
        \cup {Obj([synthesis |-> Obj([markdown_content |-> Str(t)])]) : t \in MarkdownTexts}

\* messages of the errors the runtime raises
FetchErrorMessage == "Failed to fetch"
JsonErrorMessage == "Unexpected token < in JSON at position 0"
NullErrorMessage == "Cannot read properties of null (reading 'error')"

-----------------------------------------------------------------------------
(* handleGenerate *)

\* the JSON value that the text JSON.stringify(x) denotes, for an object x of
\* strings, numbers and nulls: a property whose value is undefined is left out
JsonStringify(x) ==
    IF x.t # "obj" THEN x
    ELSE Obj([k \in {f \in DOMAIN x.v : x.v[f].t # "undefined"} |-> x.v[k]])

\* variant: the text is sent as typed, without trim()
requestBodyUntrimmed(text) == JsonStringify(Obj([user_instructions |-> Str(text)]))

\* the body of the POST: JSON.stringify({ user_instructions: instructions.trim() })
requestBody(text) == JsonStringify(Obj([user_instructions |-> Str(Trim(text))]))

\* the state of the request lifecycle that the React state ld, dt, err stands for
Lifecycle(ld, dt, err) ==
    IF ld THEN "Pending"
    ELSE IF err # Null THEN "Failed"
    ELSE IF dt # Null THEN "Succeeded"
    ELSE "Idle"

\* the record of the handler that just ran: op, its input, the tab shown and
\* the lifecycle state before it ran and, for a step of a request, the tab
\* shown when the request started and whether it overlapped another request
Event(op, arg, overlapped, startTab) ==
    [op |-> op, arg |-> arg, from |-> activeTab,
     was |-> Lifecycle(loading, data, error),
     overlapped |-> overlapped, startTab |-> startTab]

\* the identifier given to the next suspended call
FreeId == SetMin({i \in 1..MaxInflight : \A r \in inflight : r.id # i})

\* variant: the previous result is not cleared (no setData(null))
handleGenerateStartKeepsData ==
    /\ Cardinality(inflight) < MaxInflight
    /\ loading' = TRUE
    /\ error' = Null
    /\ inflight' =
            {[r EXCEPT !.overlapped = TRUE] : r \in inflight}
                \cup {[id |-> FreeId, stage |-> "fetch",
                       body |-> requestBody(instructions),
                       overlapped |-> inflight # {}, startTab |-> activeTab]}
    /\ UNCHANGED <<activeTab, data, instructions>>
    /\ screen' = AppRender(activeTab', loading', data', error')
    /\ lastEvent' = Event("generate", requestBody(instructions), inflight # {}, activeTab)

\* variant: a new run resets the visible section to the first tab
handleGenerateStartResetsTab ==
    /\ Cardinality(inflight) < MaxInflight
    /\ loading' = TRUE
    /\ error' = Null
    /\ data' = Null
    /\ activeTab' = "ingestion"
    /\ inflight' =
            {[r EXCEPT !.overlapped = TRUE] : r \in inflight}
                \cup {[id |-> FreeId, stage |-> "fetch",
                       body |-> requestBody(instructions),
                       overlapped |-> inflight # {}, startTab |-> activeTab]}
    /\ UNCHANGED instructions
    /\ screen' = AppRender(activeTab', loading', data', error')
    /\ lastEvent' = Event("generate", requestBody(instructions), inflight # {}, activeTab)

\* variant: the previous error is not cleared (no setError(null))
handleGenerateStartKeepsError ==
    /\ Cardinality(inflight) < MaxInflight
    /\ loading' = TRUE
    /\ data' = Null
    /\ inflight' =
            {[r EXCEPT !.overlapped = TRUE] : r \in inflight}
                \cup {[id |-> FreeId, stage |-> "fetch",
                       body |-> requestBody(instructions),
                       overlapped |-> inflight # {}, startTab |-> activeTab]}
    /\ UNCHANGED <<activeTab, error, instructions>>
    /\ screen' = AppRender(activeTab', loading', data', error')
    /\ lastEvent' = Event("generate", requestBody(instructions), inflight # {}, activeTab)

\* handleGenerate up to its first await: the three setters, then fetch
handleGenerateStart ==
    /\ Cardinality(inflight) < MaxInflight
    /\ loading' = TRUE
    /\ error' = Null
    /\ data' = Null
    /\ inflight' =
            {[r EXCEPT !.overlapped = TRUE] : r \in inflight}
                \cup {[id |-> FreeId, stage |-> "fetch",
                       body |-> requestBody(instructions),
                       overlapped |-> inflight # {}, startTab |-> activeTab]}
    /\ UNCHANGED <<activeTab, instructions>>
    /\ screen' = AppRender(activeTab', loading', data', error')
    /\ lastEvent' = Event("generate", requestBody(instructions), inflight # {}, activeTab)

\* variant: the catch block swallows the error (no setError)
catchFinallySwallows(r, message, op, arg) ==
    /\ loading' = FALSE
    /\ inflight' = inflight \ {r}
    /\ UNCHANGED <<activeTab, data, error, instructions>>
    /\ screen' = AppRender(activeTab', loading', data', error')
    /\ lastEvent' = Event(op, arg, r.overlapped, r.startTab)

\* variant: loading is cleared on the success path only (no finally block)
catchFinallyKeepsLoading(r, message, op, arg) ==
    /\ error' = Str(message)
    /\ inflight' = inflight \ {r}
    /\ UNCHANGED <<activeTab, loading, data, instructions>>
    /\ screen' = AppRender(activeTab', loading', data', error')
    /\ lastEvent' = Event(op, arg, r.overlapped, r.startTab)

\* catch (err) { setError(err.message) } finally { setLoading(false) }
catchFinally(r, message, op, arg) ==
    /\ error' = Str(message)
    /\ loading' = FALSE
    /\ inflight' = inflight \ {r}
    /\ UNCHANGED <<activeTab, data, instructions>>
    /\ screen' = AppRender(activeTab', loading', data', error')
    /\ lastEvent' = Event(op, arg, r.overlapped, r.startTab)

\* variant: a success shows the first tab instead of the final report
succeedFinallyFirstTab(r, result) ==
    /\ data' = result
    /\ activeTab' = "ingestion"
    /\ loading' = FALSE
    /\ inflight' = inflight \ {r}
    /\ UNCHANGED <<error, instructions>>
    /\ screen' = AppRender(activeTab', loading', data', error')
    /\ lastEvent' = Event("jsonFulfil", result, r.overlapped, r.startTab)

\* setData(result); setActiveTab('synthesis'); finally { setLoading(false) }
succeedFinally(r, result) ==
    /\ data' = result
    /\ activeTab' = "synthesis"
    /\ loading' = FALSE
    /\ inflight' = inflight \ {r}
    /\ UNCHANGED <<error, instructions>>
    /\ screen' = AppRender(activeTab', loading', data', error')
    /\ lastEvent' = Event("jsonFulfil", result, r.overlapped, r.startTab)

\* variant: the error field of the body is not looked at
handleGenerateResumeNoCheck(r, result) ==
    IF IsNullish(result)
    THEN catchFinally(r, NullErrorMessage, "jsonFulfil", result)
    ELSE succeedFinally(r, result)

\* handleGenerate from `await response.json()` on, the body parsed to result:
\* reading result.error of null throws; a truthy error is thrown as an Error
\* whose message is String(result.error)
handleGenerateResume(r, result) ==
    IF IsNullish(result)
    THEN catchFinally(r, NullErrorMessage, "jsonFulfil", result)
    ELSE IF Truthy(Get(result, "error"))
    THEN catchFinally(r, ToStringJS(Get(result, "error")), "jsonFulfil", result)
    ELSE succeedFinally(r, result)

-----------------------------------------------------------------------------
(* Events *)

\* variant: the generate button is never disabled
ClickGenerateNotDisabled ==
    /\ ~screen.crashed
    /\ handleGenerateStart

\* a click on the generate button, which is disabled={loading}
ClickGenerate ==
    /\ ~screen.crashed
    /\ ~screen.generateDisabled
    /\ handleGenerateStart

\* handleGenerate called while loading, past the disabled button
InvokeWhilePending ==
    /\ loading
    /\ handleGenerateStart

\* fetch fulfils with a response: the call moves on to `await response.json()`
FetchFulfil(r) ==
    /\ r \in inflight
    /\ r.stage = "fetch"
    /\ inflight' = (inflight \ {r}) \cup {[r EXCEPT !.stage = "json"]}
    /\ UNCHANGED <<activeTab, loading, data, error, instructions, screen>>
    /\ lastEvent' = Event("fetchFulfil", Undefined, r.overlapped, r.startTab)

\* fetch rejects (network error)
FetchReject(r) ==
    /\ r \in inflight
    /\ r.stage = "fetch"
    /\ catchFinally(r, FetchErrorMessage, "fetchReject", Undefined)

\* response.json() rejects (the body is not JSON)
JsonReject(r) ==
    /\ r \in inflight
    /\ r.stage = "json"
    /\ catchFinally(r, JsonErrorMessage, "jsonReject", Undefined)

\* response.json() fulfils with the parsed body
JsonFulfil(r, result) ==
    /\ r \in inflight
    /\ r.stage = "json"
    /\ handleGenerateResume(r, result)

\* the tab buttons are rendered in every state of the page, none disabled
CanSelectTab(t) == ~screen.crashed /\ t \in Tabs

\* variant: selecting a tab also dismisses the error
SelectTabClearsError(t) ==
    /\ CanSelectTab(t)
    /\ activeTab' = t
    /\ error' = Null
    /\ UNCHANGED <<loading, data, instructions, inflight>>
    /\ screen' = AppRender(activeTab', loading', data', error')
    /\ lastEvent' = Event("selectTab", Str(t), FALSE, activeTab)

\* a click on a tab button: onClick={() => setActiveTab(tab.id)}
SelectTab(t) ==
    /\ CanSelectTab(t)
    /\ activeTab' = t
    /\ UNCHANGED <<loading, data, error, instructions, inflight>>
    /\ screen' = AppRender(activeTab', loading', data', error')
    /\ lastEvent' = Event("selectTab", Str(t), FALSE, activeTab)

\* typing in the textarea: onChange={(e) => setInstructions(e.target.value)}
EditInstructions(text) ==
    /\ ~screen.crashed
    /\ instructions' = text
    /\ UNCHANGED <<activeTab, loading, data, error, inflight, screen>>
    /\ lastEvent' = Event("edit", Str(text), FALSE, activeTab)

\* a click on "Use Sample Prompt"
UseSamplePrompt ==
    /\ ~screen.crashed
    /\ instructions' = SamplePrompt
    /\ UNCHANGED <<activeTab, loading, data, error, inflight, screen>>
    /\ lastEvent' = Event("edit", Str(SamplePrompt), FALSE, activeTab)

-----------------------------------------------------------------------------
(* Specifications *)

Init ==
    /\ activeTab = "ingestion"
    /\ loading = FALSE
    /\ data = Null
    /\ error = Null
    /\ instructions = ""
    /\ inflight = {}
    /\ screen = AppRender("ingestion", FALSE, Null, Null)
    /\ lastEvent = [op |-> "mount", arg |-> Undefined, from |-> "ingestion",
                    was |-> "Idle", overlapped |-> FALSE, startTab |-> "ingestion"]

\* the application as the user drives it
Next ==
    \/ ClickGenerate
    \/ \E r \in inflight : FetchFulfil(r)
    \/ \E r \in inflight : FetchReject(r)
    \/ \E r \in inflight : JsonReject(r)
    \/ \E r \in inflight, result \in Results : JsonFulfil(r, result)
    \/ \E t \in Tabs : SelectTab(t)
    \/ \E text \in Texts : EditInstructions(text)
    \/ UseSamplePrompt

Spec == Init /\ [][Next]_vars

\* handleGenerate may also be invoked while an earlier call is suspended
NextDirect ==
    \/ ClickGenerate
    \/ InvokeWhilePending
    \/ \E r \in inflight : FetchFulfil(r)
    \/ \E r \in inflight : FetchReject(r)
    \/ \E r \in inflight : JsonReject(r)
    \/ \E r \in inflight, result \in Results : JsonFulfil(r, result)
    \/ \E t \in Tabs : SelectTab(t)

SpecDirect == Init /\ [][NextDirect]_vars

\* the endpoint answers with a body whose subsections have any shape
NextViews ==
    \/ ClickGenerate
    \/ \E r \in inflight : FetchFulfil(r)
    \/ \E r \in inflight, result \in ResultShapes : JsonFulfil(r, result)
    \/ \E t \in Tabs : SelectTab(t)

SpecViews == Init /\ [][NextViews]_vars

\* a suspended call is resumed: its fetch or its response.json() settles
Resolve ==
    \E r \in inflight :
        \/ FetchFulfil(r)
        \/ FetchReject(r)
        \/ JsonReject(r)
        \/ \E result \in Results : JsonFulfil(r, result)

\* the application as the user drives it, the instructions left empty or set
\* to the sample prompt (handleGenerate reads them only to build the body)
NextLive ==
    \/ ClickGenerate
    \/ \E r \in inflight : FetchFulfil(r)
    \/ \E r \in inflight : FetchReject(r)
    \/ \E r \in inflight : JsonReject(r)
    \/ \E r \in inflight, result \in Results : JsonFulfil(r, result)
    \/ \E t \in Tabs : SelectTab(t)
    \/ UseSamplePrompt

\* every issued request resolves in the end: a promise that can settle does
SpecLive == Init /\ [][NextLive]_vars /\ WF_vars(Resolve)

\* the endpoint answers with bodies of the shape the data model describes
NextSections ==
    \/ ClickGenerate
    \/ \E r \in inflight : FetchFulfil(r)
    \/ \E r \in inflight, result \in SectionResults : JsonFulfil(r, result)
    \/ \E t \in Tabs : SelectTab(t)

SpecSections == Init /\ [][NextSections]_vars

\* the endpoint answers with bodies that carry a report
NextSynthesis ==
    \/ ClickGenerate
    \/ \E r \in inflight : FetchFulfil(r)
    \/ \E r \in inflight, result \in SynthesisResults : JsonFulfil(r, result)
    \/ \E t \in Tabs : SelectTab(t)

SpecSynthesis == Init /\ [][NextSynthesis]_vars

-----------------------------------------------------------------------------
(* Properties *)

\* the body has an own error field
HasErrorField(result) == result.t = "obj" /\ "error" \in DOMAIN result.v

\* the body is a JSON object without an error field
IsCleanResult(result) == result.t = "obj" /\ "error" \notin DOMAIN result.v

\* the body is a JSON object whose error field is a non-empty string
IsErrorResult(result) ==
    /\ HasErrorField(result)
    /\ result.v.error.t = "str"
    /\ Len(result.v.error.v) > 0

\* the last step was a resolution that failed: a rejected fetch, a body that is
\* not JSON, a null body, or a body with a non-empty error field
FailedResolution ==
    \/ lastEvent.op \in {"fetchReject", "jsonReject"}
    \/ /\ lastEvent.op = "jsonFulfil"
       /\ (IsNullish(lastEvent.arg) \/ IsErrorResult(lastEvent.arg))

\* C1: right after a request resolves with a parsed JSON object that has no
\* error field, nothing is loading, no error is held, the held result is the
\* parsed body, and the visible section is the synthesis section, whatever
\* tab was shown when the request started or was selected while it was pending.
SuccessShowsSynthesis ==
    (lastEvent.op = "jsonFulfil" /\ IsCleanResult(lastEvent.arg)) =>
        /\ ~loading
        /\ error = Null
        /\ data = lastEvent.arg
        /\ Lifecycle(loading, data, error) = "Succeeded"
        /\ activeTab = "synthesis"
        /\ screen.selectedTab = "synthesis"
        /\ screen.content.view = "synthesis"

\* C1 witness: a request started on the ingestion tab, the user moved to the
\* pandas tab while it was pending, and it resolved with the full result.
SuccessShowsSynthesisWitness ==
    /\ lastEvent.op = "jsonFulfil"
    /\ lastEvent.arg = FullResult
    /\ lastEvent.startTab = "ingestion"
    /\ lastEvent.from = "pandas"
    /\ activeTab = "synthesis"
    /\ data = FullResult

\* C2: right after a request resolves with a body whose error field is a
\* non-empty string, the lifecycle is Failed holding exactly that string, no
\* result is held, and the visible section is the one shown before.
ErrorFieldFails ==
    (lastEvent.op = "jsonFulfil" /\ IsErrorResult(lastEvent.arg)) =>
        /\ ~loading
        /\ error = Str(lastEvent.arg.v.error.v)
        /\ data = Null
        /\ Lifecycle(loading, data, error) = "Failed"
        /\ activeTab = lastEvent.from
        /\ screen.content.view = "none"

\* C2 witness: a body with the error "No data" arrived while the rag tab was shown.
ErrorFieldFailsWitness ==
    /\ lastEvent.op = "jsonFulfil"
    /\ lastEvent.arg = ErrorResult("No data")
    /\ error = Str("No data")
    /\ activeTab = "rag"

\* C3: right after handleGenerate is invoked, from Idle, Succeeded or Failed,
\* loading is true and neither a result nor an error is held, and the page
\* shows neither the error banner nor a section.
StartClears ==
    lastEvent.op = "generate" =>
        /\ lastEvent.was \in {"Idle", "Succeeded", "Failed"}
        /\ loading
        /\ data = Null
        /\ error = Null
        /\ ~screen.banner.shown
        /\ screen.content.view = "none"

\* C3 witness: a retry after a failure, with the prior error cleared.
StartClearsWitness ==
    /\ lastEvent.op = "generate"
    /\ lastEvent.was = "Failed"
    /\ loading
    /\ error = Null

\* C4: a failed resolution leaves the lifecycle Failed with a non-empty
\* message held, and whenever an error is held the banner shows that message.
FailureIsVisible ==
    /\ FailedResolution =>
        /\ Lifecycle(loading, data, error) = "Failed"
        /\ error.t = "str"
        /\ Len(error.v) > 0
    /\ error # Null =>
        /\ screen.banner.shown
        /\ screen.banner.text = error.v

\* C4 witness: response.json() rejected and the banner shows the parser's message.
FailureIsVisibleWitness ==
    /\ lastEvent.op = "jsonReject"
    /\ ~loading
    /\ screen.banner.shown
    /\ screen.banner.text = JsonErrorMessage

\* the last step settled a request: its promise chain ran to the end
Settled == lastEvent.op \in {"fetchReject", "jsonReject", "jsonFulfil"}

\* the error message a failed resolution hands to setError
FailureMessage ==
    CASE lastEvent.op = "fetchReject" -> FetchErrorMessage
      [] lastEvent.op = "jsonReject" -> JsonErrorMessage
      [] IsNullish(lastEvent.arg) -> NullErrorMessage
      [] OTHER -> lastEvent.arg.v.error.v

\* <<loading, data, error>> as the request that resolved last would leave them
\* had it been the only request
AloneOutcome ==
    IF FailedResolution THEN <<FALSE, Null, Str(FailureMessage)>>
    ELSE <<FALSE, lastEvent.arg, Null>>

\* C5: once every request has resolved, the last of them having overlapped
\* another one, loading, the held result and the held error are exactly what
\* the request that resolved last would have produced alone.
LastResolutionWins ==
    (Settled /\ lastEvent.overlapped /\ inflight = {}) =>
        <<loading, data, error>> = AloneOutcome

\* C6: at most one request is in flight, loading is true exactly while one is,
\* and the generate button is disabled exactly then.
OneRequestInFlight ==
    /\ Cardinality(inflight) <= 1
    /\ loading <=> inflight # {}
    /\ ~screen.crashed
    /\ screen.generateDisabled <=> inflight # {}
    /\ \A r \in inflight : ~r.overlapped

\* C6 witness: a request is in flight while the user edits the text on another
\* tab, and the button is disabled.
OneRequestInFlightWitness ==
    /\ Cardinality(inflight) = 1
    /\ loading
    /\ screen.generateDisabled
    /\ lastEvent.op = "edit"
    /\ activeTab = "rag"

\* C7: whatever the shape of the subsections of the held result, the page
\* renders: no section view throws.
ViewsNeverThrow == ~screen.crashed

\* the text is s with a run of leading and a run of trailing white space removed,
\* and no white space is left at either end
IsTrimOf(out, s) ==
    \E i \in 0..Len(s), j \in 0..Len(s) :
        /\ i + j <= Len(s)
        /\ \A k \in 1..i : CharAt(s, k) \in WhiteSpace
        /\ \A k \in (Len(s) - j + 1)..Len(s) : CharAt(s, k) \in WhiteSpace
        /\ out = SubSeq(s, i + 1, Len(s) - j)
        /\ Len(out) > 0 =>
            /\ CharAt(out, 1) \notin WhiteSpace
            /\ CharAt(out, Len(out)) \notin WhiteSpace

\* the text has no character that is not white space
IsBlank(s) == \A k \in 1..Len(s) : CharAt(s, k) \in WhiteSpace

\* the request body carries user_instructions as a string, the trimmed text
IsTrimmedBody(body, s) ==
    /\ body.t = "obj"
    /\ DOMAIN body.v = {"user_instructions"}
    /\ body.v.user_instructions.t = "str"
    /\ IsTrimOf(body.v.user_instructions.v, s)
    /\ IsBlank(s) => Len(body.v.user_instructions.v) = 0

\* C8: the request body built by handleGenerate carries user_instructions as
\* a string equal to the instructions text without its leading and trailing
\* white space, the empty string for a blank text; the request in flight
\* carries that body.
BodyIsTrimmed ==
    lastEvent.op = "generate" =>
        /\ IsTrimmedBody(lastEvent.arg, instructions)
        /\ \E r \in inflight : r.stage = "fetch" /\ r.body = lastEvent.arg

\* C8 witness: generate clicked with a text of three spaces sends the empty string.
BodyIsTrimmedWitness ==
    /\ lastEvent.op = "generate"
    /\ instructions = "   "
    /\ \E r \in inflight : r.body = Obj([user_instructions |-> Str("")])

\* C9: every tab can be selected in every reachable state, and a selection
\* shows the selected tab and changes nothing else of the state.
SelectTabFrame ==
    /\ [](\A t \in Tabs : CanSelectTab(t))
    /\ [][lastEvent'.op = "selectTab" =>
            /\ activeTab' = lastEvent'.arg.v
            /\ screen'.selectedTab = lastEvent'.arg.v
            /\ UNCHANGED <<loading, data, error, instructions, inflight>>]_vars

\* C9 witness: the rag tab selected while a request is pending and a text typed.
SelectTabFrameWitness ==
    /\ lastEvent.op = "selectTab"
    /\ lastEvent.was = "Pending"
    /\ lastEvent.from = "ingestion"
    /\ activeTab = "rag"
    /\ inflight # {}
    /\ instructions = " a "

\* C10: the visible section starts as ingestion, is always one of the four
\* sections, is left alone by handleGenerate's start and by every failed
\* resolution, and changes only by a tab selection or, to synthesis, by a
\* successful resolution.
TabCoupling ==
    /\ activeTab = "ingestion"
    /\ [](activeTab \in Tabs)
    /\ [][(lastEvent'.op \in {"generate", "fetchFulfil"} \/ FailedResolution')
            => activeTab' = activeTab]_vars
    /\ [][activeTab' # activeTab =>
            \/ lastEvent'.op = "selectTab"
            \/ /\ lastEvent'.op = "jsonFulfil"
               /\ Lifecycle(loading', data', error') = "Succeeded"
               /\ activeTab' = "synthesis"]_vars

\* C10 witness: a request started on the pandas tab failed and the pandas tab
\* is still shown.
TabCouplingWitness ==
    /\ lastEvent.op = "fetchReject"
    /\ lastEvent.startTab = "pandas"
    /\ lastEvent.was = "Pending"
    /\ activeTab = "pandas"

\* the number of steps of the held result's step sequence under key: the
\* length of an array of steps, zero for anything else and when nothing is held
StepCount(key) ==
    LET steps == OptGet(data, key)
    IN  IF steps.t = "arr" THEN Len(steps.v) ELSE 0

\* the badge agrees with the step sequence under key, and is not shown beside
\* the placeholder of the agent's view
BadgeAgrees(badge, key, view) ==
    /\ badge.shown <=> StepCount(key) > 0
    /\ badge.shown => badge.text = NumberToString(StepCount(key))
    /\ Lifecycle(loading, data, error) \in {"Idle", "Pending", "Failed"} => ~badge.shown
    /\ (screen.content.view = view /\ screen.content.placeholder # "") => ~badge.shown

\* C11: in every state of the page, each agent tab shows a badge exactly when
\* a result is held whose step sequence for that agent has more than zero
\* steps, the badge reading that number; no badge is shown in Idle, Pending
\* and Failed, nor beside the "no analysis performed" placeholder.
BadgeMatchesSteps ==
    ~screen.crashed =>
        /\ BadgeAgrees(screen.pandasBadge, "pandas_agent", "pandas")
        /\ BadgeAgrees(screen.ragBadge, "rag_agent", "rag")

\* the ingestion record of the held result
HeldIngestion == Get(data, "ingestion")

\* the ingestion view shows the first min(n, 6) of the n names in cols, in
\* their order, and the remainder indicator exactly when n > 6
ShowsColumns(view, cols) ==
    LET n == Len(cols)
    IN  /\ Len(view.columns) = (IF n < 6 THEN n ELSE 6)
        /\ \A i \in 1..Len(view.columns) : view.columns[i] = cols[i].v
        /\ view.more.shown <=> n > 6
        /\ n > 6 => view.more.text = "+" \o NumberToString(n - 6) \o " more"
        /\ n = 9 => view.more.text = "+3 more"

\* C12: for an ingestion record whose columns have n entries, the ingestion
\* view shows exactly the first min(n, 6) columns in their order and a
\* remainder indicator exactly when n > 6, reading "+(n - 6) more"; for an
\* absent record it shows status "Ready", a count of 0 and no columns.
ColumnsTruncated ==
    (~screen.crashed /\ screen.content.view = "ingestion") =>
        /\ (HeldIngestion.t = "obj" /\ Get(HeldIngestion, "columns").t = "arr") =>
                ShowsColumns(screen.content, HeldIngestion.v.columns.v)
        /\ IsNullish(HeldIngestion) =>
                /\ screen.content.status = "Ready"
                /\ screen.content.rowCount = "0"
                /\ screen.content.columns = <<>>
                /\ ~screen.content.more.shown

\* C12 witness: nine columns held, the first six shown with "+3 more".
ColumnsTruncatedWitness ==
    /\ ~screen.crashed
    /\ screen.content.view = "ingestion"
    /\ HeldIngestion = Obj([status |-> Str("Loaded"), row_count |-> Num(1234567),
                            columns |-> ColumnsOf(9)])
    /\ screen.content.columns = <<"c1", "c2", "c3", "c4", "c5", "c6">>
    /\ screen.content.more.text = "+3 more"
    /\ screen.content.rowCount = "1,234,567"

\* the step sequence of the held result that the agent view renders
HeldSteps(view) ==
    Get(data, IF view = "pandas" THEN "pandas_agent" ELSE "rag_agent")

\* the held result has a non-empty step sequence and its agent view is shown
ShowsSteps(view) ==
    /\ ~screen.crashed
    /\ screen.content.view = view
    /\ HeldSteps(view).t = "arr"
    /\ Len(HeldSteps(view).v) > 0

\* the field f of the step is a non-empty text
HasText(item, f) == Get(item, f).t = "str" /\ Len(Get(item, f).v) > 0

\* the label of a step without a section at display number k
FallbackLabel(view, k) ==
    (IF view = "pandas" THEN "Analysis Step " ELSE "Research Step ") \o NumberToString(k)

\* block k shows step k with display number k and its label
BlocksInOrder(view) ==
    LET steps == HeldSteps(view).v
        blocks == screen.content.blocks
    IN  /\ Len(blocks) = Len(steps)
        /\ screen.content.placeholder = ""
        /\ \A k \in 1..Len(steps) :
                /\ blocks[k].number = NumberToString(k)
                /\ blocks[k].query = steps[k].v.query.v
                /\ blocks[k].label =
                        (IF HasText(steps[k], "section") THEN steps[k].v.section.v
                         ELSE FallbackLabel(view, k))
        /\ (Len(steps) >= 3 /\ ~HasText(steps[3], "section")) =>
                blocks[3].label =
                    (IF view = "pandas" THEN "Analysis Step 3" ELSE "Research Step 3")

\* C13: for a non-empty step sequence of n steps the quantitative and the
\* qualitative view show exactly n blocks, block k showing the k-th step with
\* display number k, none reordered, dropped or merged; a step without a
\* section is labelled "Analysis Step k" ("Research Step k" in the qualitative
\* view) and a step with a section is labelled with it.
StepsInOrder ==
    \A view \in {"pandas", "rag"} : ShowsSteps(view) => BlocksInOrder(view)

\* C13 witness: three quantitative steps, the second with a section and the
\* first and third, the same step twice, without.
StepsInOrderWitness ==
    /\ ShowsSteps("pandas")
    /\ HeldSteps("pandas") =
            Arr(<<Obj([query |-> Str("q2")]),
                  Obj([section |-> Str("Trend"), query |-> Str("q1")]),
                  Obj([query |-> Str("q2")])>>)
    /\ Len(screen.content.blocks) = 3
    /\ screen.content.blocks[1].label = "Analysis Step 1"
    /\ screen.content.blocks[2].label = "Trend"
    /\ screen.content.blocks[2].query = "q1"
    /\ screen.content.blocks[3].label = "Analysis Step 3"
    /\ screen.content.blocks[3].number = "3"

\* the quantitative block shows the step's code and image, or their placeholders
FlagsCodeAndImage(block, step) ==
    /\ block.code = (IF HasText(step, "code") THEN step.v.code.v
                     ELSE "# No code generated")
    /\ block.image.shown <=> HasText(step, "image")
    /\ block.image.shown => block.image.src = "data:image/png;base64," \o step.v.image.v
    /\ ~block.image.shown => block.image.text = "No visualization generated"

\* the qualitative block shows the step's context, or its placeholder
FlagsContext(block, step) ==
    block.context = (IF HasText(step, "context") THEN step.v.context.v
                     ELSE "No context found.")

\* the insight block is there exactly when the step has an insight, and
\* nothing is put in its place otherwise
InsightOnlyWhenPresent(block, step) ==
    /\ block.insight.shown <=> HasText(step, "insight")
    /\ block.insight.shown => block.insight.text = step.v.insight.v
    /\ ~block.insight.shown => block.insight.text = ""

\* C14: for every step and every combination of present and absent optional
\* fields, the quantitative view shows "No code generated" for an absent code
\* and "No visualization generated" for an absent image, the qualitative view
\* shows "No context found." for an absent context, and in both views the
\* insight block is rendered exactly when an insight is present, its absence
\* leaving no placeholder.  (Absent: left out, null, or the empty text.)
PlaceholderAsymmetry ==
    /\ ShowsSteps("pandas") =>
            \A k \in 1..Len(HeldSteps("pandas").v) :
                /\ FlagsCodeAndImage(screen.content.blocks[k], HeldSteps("pandas").v[k])
                /\ InsightOnlyWhenPresent(screen.content.blocks[k], HeldSteps("pandas").v[k])
    /\ ShowsSteps("rag") =>
            \A k \in 1..Len(HeldSteps("rag").v) :
                /\ FlagsContext(screen.content.blocks[k], HeldSteps("rag").v[k])
                /\ InsightOnlyWhenPresent(screen.content.blocks[k], HeldSteps("rag").v[k])

\* C14 witness: a quantitative step with code but with neither image nor
\* insight: the code is shown, the image is flagged, the insight is omitted.
PlaceholderAsymmetryWitness ==
    /\ ShowsSteps("pandas")
    /\ HeldSteps("pandas") =
            Arr(<<Obj([query |-> Str("q"), code |-> Str("df.sum()"), image |-> Null])>>)
    /\ screen.content.blocks[1].code = "df.sum()"
    /\ ~screen.content.blocks[1].image.shown
    /\ screen.content.blocks[1].image.text = "No visualization generated"
    /\ ~screen.content.blocks[1].insight.shown
    /\ screen.content.blocks[1].insight.text = ""

\* the end of the image directive that starts at position i of s: "![", an
\* alt text up to the first "](" in which no other "![" opens, then a source
\* up to the first ")", all on one line; 0 when no directive starts at i
DirectiveEnd(s, i) ==
    LET opens == {j \in (i + 2)..(Len(s) - 1) : SubSeq(s, j, j + 1) = "]("}
        j == IF opens = {} THEN 0 ELSE SetMin(opens)
        ends == {k \in (j + 2)..Len(s) : CharAt(s, k) = ")"}
        k == IF ends = {} THEN 0 ELSE SetMin(ends)
    IN  IF /\ i + 1 <= Len(s)
           /\ SubSeq(s, i, i + 1) = "!["
           /\ j > 0
           /\ k > 0
           /\ \A m \in (i + 2)..(j - 2) : SubSeq(s, m, m + 1) # "!["
           /\ \A m \in (i + 2)..k : CharAt(s, m) \notin {"\n", "\r"}
        THEN k
        ELSE 0

\* the image directives of s, each as <<first position, last position>>
DirectiveSpans(s) ==
    {<<i, DirectiveEnd(s, i)>> : i \in {p \in 1..Len(s) : DirectiveEnd(s, p) > 0}}

\* the synthesis record of the held result
HeldSynthesis == Get(data, "synthesis")

\* the text SynthesisView composes: the header, then the content or the
\* pending sentence
ComposedText ==
    "# BMW Global Sales Analysis Report (2020-2024)\n> Generated by AI Multi-Agent System\n\n---\n\n"
        \o (IF HasText(HeldSynthesis, "markdown_content")
            THEN HeldSynthesis.v.markdown_content.v
            ELSE "*Report generation pending...*")

\* the synthesis view is on the page
ShowsSynthesis == ~screen.crashed /\ screen.content.view = "synthesis"

\* C15: the text handed to the markdown renderer contains no image directive
\* ("![" alt "](" source ")"), whatever the synthesis content, also none that
\* forms only once an earlier directive is removed.
NoImageDirectiveLeft ==
    ShowsSynthesis => DirectiveSpans(screen.content.markdown) = {}

\* s without the characters of the spans in S (spans do not overlap)
RECURSIVE RemoveSpans(_, _)
RemoveSpans(s, S) ==
    IF S = {} THEN s
    ELSE LET last == CHOOSE sp \in S : \A other \in S : other[1] <= sp[1]
         IN  RemoveSpans(SubSeq(s, 1, last[1] - 1) \o SubSeq(s, last[2] + 1, Len(s)),
                         S \ {last})

\* C16: the text handed to the markdown renderer is the composed text with
\* only whole image directives taken out: every character outside a directive
\* is kept, in order, no directive is removed in part, and a text without a
\* directive is handed over unchanged.
OnlyDirectivesRemoved ==
    ShowsSynthesis =>
        \E S \in SUBSET DirectiveSpans(ComposedText) :
            screen.content.markdown = RemoveSpans(ComposedText, S)

\* the page shows the held result, or the held error, and not the ready screen
ShowsOutcome ==
    /\ ~screen.crashed
    /\ ~screen.spinner
    /\ Lifecycle(loading, data, error) = "Succeeded" =>
            /\ data # Null
            /\ ~screen.ready
            /\ screen.content.view # "none"
    /\ Lifecycle(loading, data, error) = "Failed" =>
            /\ error # Null
            /\ screen.banner.shown
            /\ Len(screen.banner.text) > 0

\* C17: every issued request resolving in the end, every Pending state is
\* followed by a state in which loading is false; loading goes from true to
\* false only by a resolution, on the success and on the failure path alike,
\* and the state it leaves is Succeeded, the result held and shown, or Failed,
\* the message held and shown, never one that holds neither.
PendingResolves ==
    /\ loading ~> ~loading
    /\ [][(loading /\ ~loading') =>
            /\ Settled'
            /\ Lifecycle(loading', data', error') \in {"Succeeded", "Failed"}
            /\ ShowsOutcome']_vars
    /\ [][(loading /\ Settled') => ~loading']_vars

\* C17 witness: a request that was pending has failed at response.json() and
\* the page shows the message instead of the spinner.
PendingResolvesWitness ==
    /\ lastEvent.op = "jsonFulfil"
    /\ lastEvent.was = "Pending"
    /\ IsNullish(lastEvent.arg)
    /\ ~loading
    /\ Lifecycle(loading, data, error) = "Failed"
    /\ screen.banner.text = NullErrorMessage

\* how many of: loading is true, a result is held, an error is held
HeldCount ==
    Cardinality({k \in {"loading", "data", "error"} :
                    \/ k = "loading" /\ loading
                    \/ k = "data" /\ data # Null
                    \/ k = "error" /\ error # Null})

\* how many of: the spinner, a section of a result, the error banner are shown
ShownCount ==
    Cardinality({k \in {"spinner", "section", "banner"} :
                    \/ k = "spinner" /\ screen.spinner
                    \/ k = "section" /\ screen.content.view # "none"
                    \/ k = "banner" /\ screen.banner.shown})

\* C18: requests being started through the generate button only, at most one
\* of these holds in every state: loading is true, a result is held, an error
\* is held; so a result and an error are never held together, and while
\* Pending no earlier result or error is held or shown.
AtMostOneHeld ==
    /\ HeldCount <= 1
    /\ ~screen.crashed
    /\ ShownCount <= 1
    /\ loading =>
            /\ data = Null
            /\ error = Null
            /\ screen.content.view = "none"
            /\ ~screen.banner.shown

\* C18 witness: a new request started while a result was held and shown, and
\* the result is gone while the request is pending.
AtMostOneHeldWitness ==
    /\ lastEvent.op = "generate"
    /\ lastEvent.was = "Succeeded"
    /\ loading
    /\ data = Null
    /\ screen.spinner
    /\ screen.content.view = "none"

====
